---- MODULE Spec2Model ----
(***************************************************************************)
(* A model of Maze.js: the grid of cells and doors built by the            *)
(* MazeGenerator constructor, the three randomized generators (recursive   *)
(* backtracker, Prim, Kruskal with union-find), groupDoors and the         *)
(* randomized depth-first solver.                                          *)
(*                                                                         *)
(* A cell is the record [row, col]; object identity of cells coincides     *)
(* with their coordinates because the constructor creates one Cell per     *)
(* coordinate.  A Door object is identified by the order in which the      *)
(* constructor created it (1, 2, ...), so that the array maze.doors, which *)
(* Kruskal's generator shuffles in place, is a sequence of door identities.*)
(* Every Math.random() draw is a nondeterministic choice.                  *)
(***************************************************************************)
EXTENDS Integers, Sequences, FiniteSets, TLC

VARIABLES
    pc,         \* position of the program
    config,     \* the argument given to the constructor
    rows,       \* maze.rows
    cols,       \* maze.cols
    algo,       \* maze.algo
    doors,      \* maze.doors: the array of Door objects (door identities)
    door,       \* the Door objects: identity -> [cell1, cell2, closed]
    cellDoors,  \* Cell.doors of every cell: insertion-ordered <<dir, door>> entries
    cell,       \* generators: the current cell
    v,          \* generators: the visited set
    stack,      \* createRandomMazeRec: the explicit stack
    walls,      \* createRandomMazePrim: the frontier array
    n,          \* random_shuffle: the loop counter n
    k,          \* createRandomMazeKruskal: number of doors of maze.doors processed
    m,          \* UF.m: the parent map of the union-find
    keys,       \* UF.m: the keys of the Map in insertion order
    startCell,  \* solve: argument
    endCell,    \* solve: argument
    current,    \* solve: current
    path,       \* solve: path
    sv,         \* solve: the visited set v
    err,        \* the error raised by solve, "" when none
    groups,     \* the value returned by the last groupDoors() call
    call,       \* the last call made on a UF object: operation, arguments, result
    links       \* the pairs of nodes given to UF.join so far

vars == <<pc, config, rows, cols, algo, doors, door, cellDoors, cell, v, stack,
          walls, n, k, m, keys, startCell, endCell, current, path, sv, err, groups,
          call, links>>

(***************************************************************************)
(* Bounds of the model.                                                    *)
(***************************************************************************)
\* grids of at most MaxCells cells are built and generated
MaxCells == 4
\* the union-find is exercised on at most MaxNodes nodes
MaxNodes == 3

\* the default of rows
DefaultRows == 20

(***************************************************************************)
(* JavaScript values of the configuration.                                 *)
(***************************************************************************)
Undefined == [t |-> "undefined", num |-> 0, str |-> ""]
Num(i) == [t |-> "number", num |-> i, str |-> ""]
Str(s) == [t |-> "string", num |-> 0, str |-> s]

\* ToBoolean of a value: undefined, 0 and '' are falsy
Truthy(val) ==
    CASE val.t = "undefined" -> FALSE
      [] val.t = "number" -> val.num # 0
      [] val.t = "string" -> val.str # ""

\* a || b
Or(a, b) == IF Truthy(a) THEN a ELSE b

NumArgs == {Undefined} \cup {Num(i) : i \in 0..MaxCells}
AlgoArgs == {Undefined} \cup {Str(s) : s \in {"", "recursive", "prim", "kruskal", "dfs"}}

\* the arguments of the constructor: nothing, a number, or an options object
Configs ==
    {[t |-> "undefined", num |-> 0, rows |-> Undefined, cols |-> Undefined, algo |-> Undefined]}
    \cup {[t |-> "number", num |-> i, rows |-> Undefined, cols |-> Undefined, algo |-> Undefined]
            : i \in 0..MaxCells}
    \cup {[t |-> "object", num |-> 0, rows |-> r, cols |-> c, algo |-> a]
            : r \in NumArgs, c \in NumArgs, a \in AlgoArgs}

\* lines 85-87: a number becomes {rows: config}, a falsy argument becomes {}
NormalizeConfig(cfg) ==
    IF cfg.t = "number"
    THEN [rows |-> Num(cfg.num), cols |-> Undefined, algo |-> Undefined]
    ELSE [rows |-> cfg.rows, cols |-> cfg.cols, algo |-> cfg.algo]

\* variant of ResolveCols in which cols defaults to 20 instead of rows
ResolveCols_Default20(cfg) == Or(NormalizeConfig(cfg).cols, Num(20)).num

\* lines 88-90
ResolveRows(cfg) == Or(NormalizeConfig(cfg).rows, Num(DefaultRows)).num
ResolveCols(cfg) == Or(NormalizeConfig(cfg).cols, Num(ResolveRows(cfg))).num
ResolveAlgo(cfg) == Or(NormalizeConfig(cfg).algo, Str("recursive")).str

(***************************************************************************)
(* Cells and doors.                                                        *)
(***************************************************************************)
Cell(x, y) == [row |-> x, col |-> y]
NoCell == Cell(-1, -1)    \* the value undefined where a cell is expected
AllCells == {Cell(x, y) : x \in 0..(rows - 1), y \in 0..(cols - 1)}
NoDoors == [c \in {} |-> <<>>]

\* variant of Door whose walls start open
Door_InitiallyOpen(c1, c2) ==
    LET kk == c1.row < c2.row \/ (c1.row = c2.row /\ c1.col < c2.col)
    IN  [cell1 |-> IF kk THEN c1 ELSE c2,
         cell2 |-> IF kk THEN c2 ELSE c1,
         closed |-> FALSE]

\* variant of Door that keeps the endpoints in the order given
Door_Unordered(c1, c2) == [cell1 |-> c1, cell2 |-> c2, closed |-> TRUE]

\* Door constructor
Door(c1, c2) ==
    LET kk == c1.row < c2.row \/ (c1.row = c2.row /\ c1.col < c2.col)
    IN  [cell1 |-> IF kk THEN c1 ELSE c2,
         cell2 |-> IF kk THEN c2 ELSE c1,
         closed |-> TRUE]

\* Door.direction
direction(d) == IF d.cell1.row = d.cell2.row THEN "|" ELSE "-"

\* obj[key] = val on an insertion-ordered object
RECURSIVE SetKey(_, _, _)
SetKey(obj, key, val) ==
    IF obj = <<>> THEN <<[dir |-> key, door |-> val]>>
    ELSE IF Head(obj).dir = key THEN <<[dir |-> key, door |-> val]>> \o Tail(obj)
    ELSE <<Head(obj)>> \o SetKey(Tail(obj), key, val)

\* Object.values(cell.doors)
DoorValues(c) == [i \in 1..Len(cellDoors[c]) |-> cellDoors[c][i].door]

\* the elements of an array
Range(s) == {s[i] : i \in 1..Len(s)}

\* lines 108-113 and 117-121: create a door between c1 and c2 and register it
AddDoor(g, c1, c2, dir1, dir2) ==
    LET id == Len(g.doors) + 1
    IN  [doors |-> Append(g.doors, id),
         door |-> g.door @@ (id :> Door(c1, c2)),
         cellDoors |-> [g.cellDoors EXCEPT ![c1] = SetKey(@, dir1, id),
                                           ![c2] = SetKey(@, dir2, id)]]

\* lines 104-124: the loop over the cells in row-major order, from cell number i
RECURSIVE CreateDoors(_, _, _, _)
CreateDoors(g, i, r, c) ==
    IF i >= r * c THEN g
    ELSE LET x == i \div c
             y == i % c
             g1 == IF x >= 1 THEN AddDoor(g, Cell(x, y), Cell(x - 1, y), "up", "down") ELSE g
             g2 == IF y >= 1 THEN AddDoor(g1, Cell(x, y), Cell(x, y - 1), "left", "right") ELSE g1
         IN  CreateDoors(g2, i + 1, r, c)

\* lines 92-124: the cells, then the doors
CreateGrid(r, c) ==
    CreateDoors([doors |-> <<>>,
                 door |-> [i \in {} |-> Door(NoCell, NoCell)],
                 cellDoors |-> [cl \in {Cell(x, y) : x \in 0..(r - 1), y \in 0..(c - 1)} |-> <<>>]],
                0, r, c)

\* the other end of door d seen from cell c
OtherEnd(d, c) == IF door[d].cell1 = c THEN door[d].cell2 ELSE door[d].cell1

\* variant of Cell.neighbors without the test of door.closed
neighbors_IgnoringClosed(c) ==
    [i \in 1..Len(cellDoors[c]) |->
        [dir |-> cellDoors[c][i].dir, cell |-> OtherEnd(cellDoors[c][i].door, c)]]

\* Cell.neighbors: the cells behind the open doors, by direction
neighbors(c) ==
    LET open == SelectSeq(cellDoors[c], LAMBDA e : ~door[e.door].closed)
    IN  [i \in 1..Len(open) |-> [dir |-> open[i].dir, cell |-> OtherEnd(open[i].door, c)]]

\* Cell.canVisit
canVisit(c) == [i \in 1..Len(neighbors(c)) |-> neighbors(c)[i].cell]

\* variant of _neighbors that always takes door.cell1
_neighbors_Cell1(c) == [i \in 1..Len(cellDoors[c]) |-> door[cellDoors[c][i].door].cell1]

\* _neighbors: the neighboring cells, whatever the state of the door
_neighbors(c) == [i \in 1..Len(cellDoors[c]) |-> OtherEnd(cellDoors[c][i].door, c)]

\* arr.filter(x => !set.has(x))
NotIn(arr, set) == SelectSeq(arr, LAMBDA x : x \notin set)

\* no call has been made on a UF object
NoCall == [op |-> "", p |-> NoCell, q |-> NoCell, ret |-> NoCell, yes |-> FALSE, nbr |-> 0]

(***************************************************************************)
(* The initial state: the constructor is about to be called with config.   *)
(***************************************************************************)
Init ==
    /\ pc = "new"
    /\ config \in Configs
    /\ rows = 0 /\ cols = 0 /\ algo = ""
    /\ doors = <<>>
    /\ door = [i \in {} |-> Door(NoCell, NoCell)]
    /\ cellDoors = NoDoors
    /\ cell = NoCell /\ v = {} /\ stack = <<>> /\ walls = <<>>
    /\ n = 0 /\ k = 0
    /\ m = [c \in {} |-> NoCell]
    /\ keys = <<>>
    /\ startCell = NoCell /\ endCell = NoCell /\ current = NoCell
    /\ path = <<>> /\ sv = {} /\ err = ""
    /\ groups = [vertical |-> <<>>, horizontal |-> <<>>]
    /\ call = NoCall
    /\ links = {}

genLocals == <<cell, v, stack, walls, n, k, m, keys>>
ufCalls == <<call, links>>
solveLocals == <<startCell, endCell, current, path, sv, err>>
grid == <<doors, door, cellDoors>>
fields == <<config, rows, cols, algo>>

\* lines 84-90: the configuration is resolved
Configure ==
    /\ pc = "new"
    /\ rows' = ResolveRows(config)
    /\ cols' = ResolveCols(config)
    /\ algo' = ResolveAlgo(config)
    /\ pc' = "configured"
    /\ UNCHANGED <<config, grid, genLocals, solveLocals, groups, ufCalls>>

\* lines 92-125: the grid is built and randomizeMaze dispatches on maze.algo
Construct ==
    /\ pc = "configured"
    /\ rows * cols <= MaxCells
    /\ LET g == CreateGrid(rows, cols)
       IN  /\ doors' = g.doors
           /\ door' = g.door
           /\ cellDoors' = g.cellDoors
    /\ pc' = CASE algo = "prim" -> "prim"
               [] algo = "kruskal" -> "kruskal"
               [] OTHER -> "rec"
    /\ UNCHANGED <<fields, genLocals, solveLocals, groups, ufCalls>>

(***************************************************************************)
(* createRandomMazeRec                                                     *)
(***************************************************************************)
\* lines 184-188: a random start cell, an empty visited set and stack
RecStart ==
    /\ pc = "rec"
    /\ \E i \in 0..(rows - 1), j \in 0..(cols - 1) : cell' = Cell(i, j)
    /\ v' = {}
    /\ stack' = <<>>
    /\ pc' = "recLoop"
    /\ UNCHANGED <<fields, grid, walls, n, k, m, keys, solveLocals, groups, ufCalls>>

\* line 193: Object.values(n.doors).find(d => d.cell1 === cell || d.cell2 === cell)
FindDoor(nb, c) ==
    SelectSeq(DoorValues(nb), LAMBDA d : door[d].cell1 = c \/ door[d].cell2 = c)

\* lines 189-204: one iteration of the loop
RecStep ==
    /\ pc = "recLoop"
    /\ LET u == NotIn(_neighbors(cell), v)
       IN  IF Len(u) > 0
           THEN \E i \in 1..Len(u) :
                    LET nb == u[i]
                        d == Head(FindDoor(nb, cell))
                    IN  /\ door' = [door EXCEPT ![d].closed = FALSE]
                        /\ stack' = Append(stack, cell)
                        /\ cell' = nb
                        /\ v' = v \cup {nb}
                        /\ pc' = "recLoop"
           ELSE IF Len(stack) = 0
                THEN /\ pc' = "generated"
                     /\ UNCHANGED <<door, stack, cell, v>>
                ELSE /\ cell' = stack[Len(stack)]
                     /\ stack' = SubSeq(stack, 1, Len(stack) - 1)
                     /\ pc' = "recLoop"
                     /\ UNCHANGED <<door, v>>
    /\ UNCHANGED <<fields, doors, cellDoors, walls, n, k, m, keys, solveLocals, groups, ufCalls>>

(***************************************************************************)
(* createRandomMazePrim                                                    *)
(***************************************************************************)
\* variant of the start of Prim that does not mark the start cell visited
PrimStart_NoMark ==
    /\ pc = "prim"
    /\ \E i \in 0..(rows - 1), j \in 0..(cols - 1) :
          /\ cell' = Cell(i, j)
          /\ walls' = DoorValues(Cell(i, j))
          /\ v' = {}
    /\ pc' = "primLoop"
    /\ UNCHANGED <<fields, grid, stack, n, k, m, keys, solveLocals, groups, ufCalls>>

\* lines 208-221: a random start cell, its doors as the frontier
PrimStart ==
    /\ pc = "prim"
    /\ \E i \in 0..(rows - 1), j \in 0..(cols - 1) :
          /\ cell' = Cell(i, j)
          /\ walls' = DoorValues(Cell(i, j))
          /\ v' = {Cell(i, j)}
    /\ pc' = "primLoop"
    /\ UNCHANGED <<fields, grid, stack, n, k, m, keys, solveLocals, groups, ufCalls>>

\* a[i] and a[j] exchanged (1-based)
Swap(a, i, j) == [a EXCEPT ![i] = a[j], ![j] = a[i]]

\* variant of pickWall that pops the last wall without the swap
pickWall_NoSwap(ws, kk) == [w |-> ws[kk + 1], walls |-> SubSeq(ws, 1, Len(ws) - 1)]

\* pickWall with the random index kk (0-based): the wall picked and the frontier left
pickWall(ws, kk) ==
    LET last == Len(ws) - 1
        sw == Swap(ws, kk + 1, last + 1)
    IN  [w |-> sw[last + 1], walls |-> SubSeq(sw, 1, last)]

\* lines 222-232: one iteration of the loop
PrimStep ==
    /\ pc = "primLoop"
    /\ IF Len(walls) > 0
       THEN \E kk \in 0..(Len(walls) - 1) :
                LET p == pickWall(walls, kk)
                    w == door[p.w]
                IN  IF w.cell1 \in v /\ w.cell2 \in v
                    THEN /\ walls' = p.walls
                         /\ UNCHANGED <<door, v>>
                    ELSE LET unvisited == IF w.cell1 \in v THEN w.cell2 ELSE w.cell1
                         IN  /\ door' = [door EXCEPT ![p.w].closed = FALSE]
                             /\ v' = v \cup {unvisited}
                             /\ walls' = p.walls \o DoorValues(unvisited)
       ELSE UNCHANGED <<door, v, walls>>
    /\ pc' = IF Len(walls) > 0 THEN "primLoop" ELSE "generated"
    /\ UNCHANGED <<fields, doors, cellDoors, cell, stack, n, k, m, keys, solveLocals, groups, ufCalls>>

(***************************************************************************)
(* The union-find UF.  The parent map m is passed and returned because     *)
(* root rewrites it.                                                       *)
(***************************************************************************)
\* variant of the lookup that returns the parent of p without following the chain
rootLoop_ParentOnly(mm, p) == [m |-> mm, r |-> mm[p]]

\* lines 276-283: the loop of root
RECURSIVE rootLoop(_, _)
rootLoop(mm, p) ==
    IF p = mm[p] THEN [m |-> mm, r |-> p]
    ELSE LET par == mm[p]
             ppar == mm[par]
         IN  rootLoop([mm EXCEPT ![p] = ppar], ppar)

\* UF.root
root(mm, p) == rootLoop(IF p \in DOMAIN mm THEN mm ELSE mm @@ (p :> p), p)

\* variant of UF.join that repoints p instead of the root of p
join_RepointsP(mm, p, q) ==
    LET rp == root(mm, p)
        rq == root(rp.m, q)
    IN  IF rp.r = rq.r THEN rq.m ELSE [rq.m EXCEPT ![p] = rq.r]

\* line 275: the keys of the Map after this.m.set(p, p) for an unseen p
SetKeys(ks, p) == IF p \in Range(ks) THEN ks ELSE Append(ks, p)

\* UF.join
join(mm, p, q) ==
    LET rp == root(mm, p)
        rq == root(rp.m, q)
    IN  IF rp.r = rq.r THEN rq.m ELSE [rq.m EXCEPT ![rp.r] = rq.r]

\* UF.joined
joined(mm, p, q) ==
    LET rp == root(mm, p)
        rq == root(rp.m, q)
    IN  [m |-> rq.m, r |-> (rp.r = rq.r)]

\* variant of the loop of rootsNbr that collects the parents instead of their roots
rootsNbrLoop_Parents(mm, ks, i, s) ==
    [m |-> mm, r |-> Cardinality({mm[ks[j]] : j \in i..Len(ks)} \cup s)]

\* lines 268-270: this.m.forEach(p => s.add(this.root(p))) from the i-th entry
\* of the Map on; p is the value of the entry, s the set of roots so far
RECURSIVE rootsNbrLoop(_, _, _, _)
rootsNbrLoop(mm, ks, i, s) ==
    IF i > Len(ks) THEN [m |-> mm, r |-> Cardinality(s)]
    ELSE LET rt == root(mm, mm[ks[i]])
         IN  rootsNbrLoop(rt.m, ks, i + 1, s \cup {rt.r})

\* UF.rootsNbr
rootsNbr(mm, ks) == rootsNbrLoop(mm, ks, 1, {})

(***************************************************************************)
(* createRandomMazeKruskal                                                 *)
(***************************************************************************)
\* line 236, line 251: random_shuffle(maze.doors) is entered
KruskalStart ==
    /\ pc = "kruskal"
    /\ n' = Len(doors)
    /\ pc' = "shuffle"
    /\ UNCHANGED <<fields, grid, cell, v, stack, walls, k, m, keys, solveLocals, groups, ufCalls>>

\* variant of the Fisher-Yates loop that does not decrement n
ShuffleStep_NoDecrement ==
    /\ pc = "shuffle"
    /\ IF n > 1
       THEN /\ \E kk \in 0..(n - 1) : doors' = Swap(doors, n, kk + 1)
            /\ n' = n
            /\ pc' = "shuffle"
            /\ UNCHANGED <<k, m, keys>>
       ELSE /\ m' = [c \in {} |-> NoCell]
            /\ keys' = <<>>
            /\ k' = 0
            /\ pc' = "kruskalLoop"
            /\ UNCHANGED <<doors, n>>
    /\ UNCHANGED <<fields, door, cellDoors, cell, v, stack, walls, solveLocals, groups, ufCalls>>

\* lines 251-257: one iteration of the Fisher-Yates loop, or its exit (line 237)
ShuffleStep ==
    /\ pc = "shuffle"
    /\ IF n > 1
       THEN /\ \E kk \in 0..(n - 1) : doors' = Swap(doors, n, kk + 1)
            /\ n' = n - 1
            /\ pc' = "shuffle"
            /\ UNCHANGED <<k, m, keys>>
       ELSE /\ m' = [c \in {} |-> NoCell]
            /\ keys' = <<>>
            /\ k' = 0
            /\ pc' = "kruskalLoop"
            /\ UNCHANGED <<doors, n>>
    /\ UNCHANGED <<fields, door, cellDoors, cell, v, stack, walls, solveLocals, groups, ufCalls>>

\* variant of Kruskal's loop that opens the wall without the call of uf.join
KruskalStep_NoJoin ==
    /\ pc = "kruskalLoop"
    /\ IF k < Len(doors)
       THEN LET d == doors[k + 1]
                j == joined(m, door[d].cell1, door[d].cell2)
            IN  /\ IF ~j.r
                   THEN door' = [door EXCEPT ![d].closed = FALSE]
                   ELSE UNCHANGED door
                /\ m' = j.m
                /\ keys' = SetKeys(SetKeys(keys, door[d].cell1), door[d].cell2)
                /\ k' = k + 1
                /\ pc' = "kruskalLoop"
       ELSE /\ pc' = "generated"
            /\ UNCHANGED <<door, m, keys, k>>
    /\ UNCHANGED <<fields, doors, cellDoors, cell, v, stack, walls, n, solveLocals, groups, ufCalls>>

\* lines 238-243: one iteration of the loop over maze.doors
KruskalStep ==
    /\ pc = "kruskalLoop"
    /\ IF k < Len(doors)
       THEN LET d == doors[k + 1]
                j == joined(m, door[d].cell1, door[d].cell2)
            IN  /\ IF ~j.r
                   THEN /\ door' = [door EXCEPT ![d].closed = FALSE]
                        /\ m' = join(j.m, door[d].cell1, door[d].cell2)
                   ELSE /\ m' = j.m
                        /\ UNCHANGED door
                /\ keys' = SetKeys(SetKeys(keys, door[d].cell1), door[d].cell2)
                /\ k' = k + 1
                /\ pc' = "kruskalLoop"
       ELSE /\ pc' = "generated"
            /\ UNCHANGED <<door, m, keys, k>>
    /\ UNCHANGED <<fields, doors, cellDoors, cell, v, stack, walls, n, solveLocals, groups, ufCalls>>

\* lines 125-126: randomizeMaze and the constructor return; the generator's
\* local variables are gone
Return ==
    /\ pc = "generated"
    /\ pc' = "idle"
    /\ cell' = NoCell /\ v' = {} /\ stack' = <<>> /\ walls' = <<>>
    /\ n' = 0 /\ k' = 0
    /\ m' = [c \in {} |-> NoCell]
    /\ keys' = <<>>
    /\ UNCHANGED <<fields, grid, solveLocals, groups, ufCalls>>

(***************************************************************************)
(* The operations of the constructed maze.                                 *)
(***************************************************************************)
Idle == pc \in {"idle", "returned", "thrown"}

\* lines 142-148: the doors of maze.doors in two arrays, by direction
groupDoors ==
    [vertical |-> SelectSeq(doors, LAMBDA d : direction(door[d]) = "|"),
     horizontal |-> SelectSeq(doors, LAMBDA d : direction(door[d]) = "-")]

\* a call of maze.groupDoors()
GroupDoors ==
    /\ Idle
    /\ groups' = groupDoors
    /\ UNCHANGED <<pc, fields, grid, genLocals, solveLocals, ufCalls>>

\* lines 152-156: solve is called with two cells of the maze
SolveStart ==
    /\ Idle
    /\ \E s \in AllCells, e \in AllCells :
          /\ startCell' = s
          /\ endCell' = e
          /\ current' = s
          /\ path' = <<s>>
          /\ sv' = {s}
    /\ err' = ""
    /\ pc' = "solve"
    /\ UNCHANGED <<fields, grid, genLocals, groups, ufCalls>>

\* variant of the solver's loop that fills dead ends: on backtracking it closes
\* the door it retreats through
SolveStep_DeadEndFill ==
    /\ pc = "solve"
    /\ IF current = endCell
       THEN /\ pc' = "returned"
            /\ UNCHANGED <<current, path, sv, err, door>>
       ELSE IF current = NoCell
       THEN /\ pc' = "thrown"
            /\ err' = "TypeError"
            /\ UNCHANGED <<current, path, sv, door>>
       ELSE LET u == NotIn(canVisit(current), sv)
            IN  IF Len(u) > 0
                THEN /\ \E i \in 1..Len(u) :
                           /\ current' = u[i]
                           /\ sv' = sv \cup {u[i]}
                           /\ path' = Append(path, u[i])
                     /\ pc' = "solve"
                     /\ UNCHANGED <<err, door>>
                ELSE IF Len(path) = 0
                THEN /\ pc' = "thrown"
                     /\ err' = "Cannot find a way"
                     /\ UNCHANGED <<current, path, sv, door>>
                ELSE /\ path' = SubSeq(path, 1, Len(path) - 1)
                     /\ current' = IF Len(path) > 1 THEN path[Len(path) - 1] ELSE NoCell
                     /\ door' = [d \in DOMAIN door |->
                                    IF Len(path) > 1
                                       /\ {door[d].cell1, door[d].cell2} = {current, path[Len(path) - 1]}
                                    THEN [door[d] EXCEPT !.closed = TRUE]
                                    ELSE door[d]]
                     /\ pc' = "solve"
                     /\ UNCHANGED <<sv, err>>
    /\ UNCHANGED <<startCell, endCell, fields, doors, cellDoors, genLocals, groups, ufCalls>>

\* lines 157-171: one iteration of the loop, or its exit
SolveStep ==
    /\ pc = "solve"
    /\ IF current = endCell
       THEN /\ pc' = "returned"
            /\ UNCHANGED <<current, path, sv, err>>
       ELSE IF current = NoCell
       THEN \* current is undefined: current.canVisit() raises a TypeError
            /\ pc' = "thrown"
            /\ err' = "TypeError"
            /\ UNCHANGED <<current, path, sv>>
       ELSE LET u == NotIn(canVisit(current), sv)
            IN  IF Len(u) > 0
                THEN /\ \E i \in 1..Len(u) :
                           /\ current' = u[i]
                           /\ sv' = sv \cup {u[i]}
                           /\ path' = Append(path, u[i])
                     /\ pc' = "solve"
                     /\ UNCHANGED err
                ELSE IF Len(path) = 0
                THEN /\ pc' = "thrown"
                     /\ err' = "Cannot find a way"
                     /\ UNCHANGED <<current, path, sv>>
                ELSE /\ path' = SubSeq(path, 1, Len(path) - 1)
                     /\ current' = IF Len(path) > 1 THEN path[Len(path) - 1] ELSE NoCell
                     /\ pc' = "solve"
                     /\ UNCHANGED <<sv, err>>
    /\ UNCHANGED <<startCell, endCell, fields, grid, genLocals, groups, ufCalls>>

Next ==
    \/ Configure
    \/ Construct
    \/ RecStart
    \/ RecStep
    \/ PrimStart
    \/ PrimStep
    \/ KruskalStart
    \/ ShuffleStep
    \/ KruskalStep
    \/ Return
    \/ GroupDoors
    \/ SolveStart
    \/ SolveStep

Spec == Init /\ [][Next]_vars

\* the loops are executed: every enabled step is eventually taken
FairSpec == Init /\ [][Next]_vars /\ WF_vars(Next)


(***************************************************************************)
(* solve called with an end cell that belongs to another maze: no cell of  *)
(* this maze is identical to it, so it is not reachable from the start.    *)
(***************************************************************************)
\* a Cell object of another MazeGenerator
OtherMazeCell == Cell(rows, cols)

\* lines 152-156: solve(start, end) with end a cell of another maze
SolveStartOtherMaze ==
    /\ Idle
    /\ \E s \in AllCells :
          /\ startCell' = s
          /\ current' = s
          /\ path' = <<s>>
          /\ sv' = {s}
    /\ endCell' = OtherMazeCell
    /\ err' = ""
    /\ pc' = "solve"
    /\ UNCHANGED <<fields, grid, genLocals, groups, ufCalls>>

NextOtherMaze == Next \/ SolveStartOtherMaze

SpecOtherMaze == Init /\ [][NextOtherMaze]_vars

(***************************************************************************)
(* A UF object under arbitrary sequences of calls of root, join, joined     *)
(* and rootsNbr on up to MaxNodes nodes.                                    *)
(***************************************************************************)
\* the nodes given to the UF object
UFNodes == {Cell(0, y) : y \in 0..(MaxNodes - 1)}

\* the block of node p in the partition blocks, a singleton when p is in no block
BlockOf(blocks, p) == IF \E B \in blocks : p \in B
                      THEN CHOOSE B \in blocks : p \in B
                      ELSE {p}

\* line 263: new UF
InitUF ==
    /\ pc = "uf"
    /\ config = [t |-> "undefined", num |-> 0, rows |-> Undefined, cols |-> Undefined,
                 algo |-> Undefined]
    /\ rows = 0 /\ cols = 0 /\ algo = ""
    /\ doors = <<>>
    /\ door = [i \in {} |-> Door(NoCell, NoCell)]
    /\ cellDoors = NoDoors
    /\ cell = NoCell /\ v = {} /\ stack = <<>> /\ walls = <<>>
    /\ n = 0 /\ k = 0
    /\ m = [c \in {} |-> NoCell]
    /\ keys = <<>>
    /\ startCell = NoCell /\ endCell = NoCell /\ current = NoCell
    /\ path = <<>> /\ sv = {} /\ err = ""
    /\ groups = [vertical |-> <<>>, horizontal |-> <<>>]
    /\ call = NoCall
    /\ links = {}

notUF == <<pc, fields, grid, cell, v, stack, walls, n, k, solveLocals, groups>>

\* a call of root(p)
UFRoot ==
    /\ pc = "uf"
    /\ \E p \in UFNodes :
          LET r == root(m, p)
          IN  /\ m' = r.m
              /\ keys' = SetKeys(keys, p)
              /\ call' = [NoCall EXCEPT !.op = "root", !.p = p, !.ret = r.r]
    /\ UNCHANGED <<links, notUF>>

\* a call of join(p, q)
UFJoin ==
    /\ pc = "uf"
    /\ \E p \in UFNodes, q \in UFNodes :
          /\ m' = join(m, p, q)
          /\ keys' = SetKeys(SetKeys(keys, p), q)
          /\ call' = [NoCall EXCEPT !.op = "join", !.p = p, !.q = q]
          /\ links' = (links \ {BlockOf(links, p), BlockOf(links, q)})
                         \cup {BlockOf(links, p) \cup BlockOf(links, q)}
    /\ UNCHANGED notUF

\* a call of joined(p, q)
UFJoined ==
    /\ pc = "uf"
    /\ \E p \in UFNodes, q \in UFNodes :
          LET j == joined(m, p, q)
          IN  /\ m' = j.m
              /\ keys' = SetKeys(SetKeys(keys, p), q)
              /\ call' = [NoCall EXCEPT !.op = "joined", !.p = p, !.q = q, !.yes = j.r]
    /\ UNCHANGED <<links, notUF>>

\* a call of rootsNbr()
UFRootsNbr ==
    /\ pc = "uf"
    /\ LET r == rootsNbr(m, keys)
       IN  /\ m' = r.m
           /\ call' = [NoCall EXCEPT !.op = "rootsNbr", !.nbr = r.r]
    /\ UNCHANGED <<keys, links, notUF>>

NextUF == UFRoot \/ UFJoin \/ UFJoined \/ UFRootsNbr

SpecUF == InitUF /\ [][NextUF]_vars

(***************************************************************************)
(* The graph of the open doors.                                            *)
(***************************************************************************)
\* the grid exists
Built == pc \notin {"new", "configured"}

\* generation has finished
Generated == pc \in {"generated", "idle", "solve", "returned", "thrown"}

OpenDoors == {d \in DOMAIN door : ~door[d].closed}

\* an open door joins a and b
OpenBetween(a, b) ==
    \E d \in OpenDoors : {door[d].cell1, door[d].cell2} = {a, b} /\ a # b

\* the cells a traversal over canVisit() edges visits, starting from the set S
RECURSIVE Visits(_)
Visits(S) ==
    LET T == S \cup {x \in AllCells : \E c \in S : x \in Range(canVisit(c))}
    IN  IF T = S THEN S ELSE Visits(T)

\* the connected components of the graph of open doors
Components == {Visits({c}) : c \in AllCells}

\* a graph is a forest exactly when edges = nodes - components
Acyclic == Cardinality(OpenDoors) = Cardinality(AllCells) - Cardinality(Components)

\* C1: when generation finishes, exactly rows*cols - 1 walls are open and the
\* graph of cells joined by open walls has no cycle.
C1_SpanningTree ==
    pc = "generated" => Cardinality(OpenDoors) = rows * cols - 1 /\ Acyclic

\* C2: after generation a traversal over canVisit() edges from any cell visits
\* all rows*cols cells.
C2_Connected ==
    Generated => \A c \in AllCells : Cardinality(Visits({c})) = rows * cols

C2_Witness ==
    /\ pc = "generated"
    /\ rows = 2 /\ cols = 2
    /\ algo = "kruskal"
    /\ Cardinality(OpenDoors) < Len(doors)

\* C3: the sequence solve returns starts with start, ends with end, joins every
\* consecutive pair by an open wall and repeats no cell; solve(c, c) is [c].
C3_SolvePath ==
    pc = "returned" =>
        /\ Len(path) >= 1
        /\ path[1] = startCell
        /\ path[Len(path)] = endCell
        /\ \A i \in 1..(Len(path) - 1) : OpenBetween(path[i], path[i + 1])
        /\ \A i, j \in 1..Len(path) : path[i] = path[j] => i = j
        /\ (startCell = endCell => path = <<startCell>>)

\* solve has returned a path of three cells after backtracking out of a dead end
C3_Witness ==
    /\ pc = "returned"
    /\ Len(path) >= 3
    /\ Cardinality(sv) > Len(path)

\* C4: solve on a generated maze never empties the path while current is not
\* end, and raises no error.
C4_NoError ==
    /\ pc # "thrown"
    /\ err = ""
    /\ (pc = "solve" => Len(path) >= 1 /\ current # NoCell)

\* solve has backtracked to the start cell and goes on
C4_Witness ==
    /\ pc = "solve"
    /\ path = <<startCell>>
    /\ Cardinality(sv) > 1
    /\ current # endCell

\* an array of door identities lists them in the order of their creation
InCreationOrder(s) == \A i, j \in 1..Len(s) : i < j => s[i] < s[j]

\* C5: groupDoors() returns each group in the order in which the constructor
\* created the walls, and every wall is in exactly the group of its direction.
C5_GroupDoorsOrder ==
    [][groups' # groups =>
        /\ InCreationOrder(groups'.vertical)
        /\ InCreationOrder(groups'.horizontal)
        /\ Range(groups'.vertical) = {d \in DOMAIN door : direction(door[d]) = "|"}
        /\ Range(groups'.horizontal) = {d \in DOMAIN door : direction(door[d]) = "-"}
        /\ Len(groups'.vertical) + Len(groups'.horizontal) = Cardinality(DOMAIN door)]_vars

\* C6: solve changes no grid state: the doors (endpoints and closed flags), the
\* cells' direction maps and the wall list are the same after every step of it.
C6_SolveNoMutation ==
    [][(pc = "solve" \/ pc' = "solve") =>
        /\ door' = door
        /\ cellDoors' = cellDoors
        /\ doors' = doors]_vars

\* solve has returned a path of at least two cells on a maze with a closed wall
C6_Witness ==
    /\ pc = "returned"
    /\ Len(path) >= 2
    /\ Cardinality(OpenDoors) < Len(doors)

\* C7: generation terminates and solve terminates.
C7_Terminates ==
    /\ (pc \in {"rec", "prim", "kruskal"}) ~> (pc = "generated")
    /\ (pc = "solve") ~> (pc \in {"returned", "thrown"})

\* solve has ended after visiting every cell of a four-cell maze
C7_Witness ==
    /\ pc \in {"returned", "thrown"}
    /\ rows * cols = 4
    /\ Cardinality(sv) = 4

\* a and b are horizontally or vertically adjacent
Adjacent(a, b) ==
    \/ a.row = b.row /\ (a.col - b.col = 1 \/ b.col - a.col = 1)
    \/ a.col = b.col /\ (a.row - b.row = 1 \/ b.row - a.row = 1)

\* a comes before b in row-major order
Before(a, b) == a.row < b.row \/ (a.row = b.row /\ a.col < b.col)

\* cell c has door d under direction dir, and under no other direction
Registered(c, dir, d) ==
    \A i \in 1..Len(cellDoors[c]) : (cellDoors[c][i].door = d) <=> (cellDoors[c][i].dir = dir)

HasEntry(c, d) == \E i \in 1..Len(cellDoors[c]) : cellDoors[c][i].door = d

\* C8: the direction maps encode exactly the grid adjacency: one wall per pair
\* of adjacent cells, cell1 before cell2 in row-major order, registered in both
\* endpoints under opposite directions and in no other cell.
C8_GridAdjacency ==
    Built =>
        /\ Cardinality(DOMAIN door) = rows * (cols - 1) + cols * (rows - 1)
        /\ Len(doors) = rows * (cols - 1) + cols * (rows - 1)
        /\ Range(doors) = DOMAIN door
        /\ \A a, b \in AllCells :
              Cardinality({d \in DOMAIN door : {door[d].cell1, door[d].cell2} = {a, b}})
                  = IF Adjacent(a, b) THEN 1 ELSE 0
        /\ \A d \in DOMAIN door :
              /\ door[d].cell1 \in AllCells /\ door[d].cell2 \in AllCells
              /\ Adjacent(door[d].cell1, door[d].cell2)
              /\ Before(door[d].cell1, door[d].cell2)
              /\ HasEntry(door[d].cell1, d) /\ HasEntry(door[d].cell2, d)
              /\ IF door[d].cell1.row = door[d].cell2.row
                 THEN /\ Registered(door[d].cell1, "right", d)
                      /\ Registered(door[d].cell2, "left", d)
                 ELSE /\ Registered(door[d].cell1, "down", d)
                      /\ Registered(door[d].cell2, "up", d)
              /\ \A c \in AllCells \ {door[d].cell1, door[d].cell2} : ~HasEntry(c, d)

\* a 2x2 grid has just been constructed
C8_Witness ==
    /\ pc \in {"rec", "prim", "kruskal"}
    /\ rows = 2 /\ cols = 2
    /\ Len(doors) = 4

\* the values given in the configuration, 0 and "" when absent
GivenRows ==
    CASE config.t = "number" -> config.num
      [] config.t = "object" /\ config.rows.t = "number" -> config.rows.num
      [] OTHER -> 0
GivenCols == IF config.t = "object" /\ config.cols.t = "number" THEN config.cols.num ELSE 0
GivenAlgo == IF config.t = "object" /\ config.algo.t = "string" THEN config.algo.str ELSE ""

\* C9: configuration resolution signals no error; rows is the given value when
\* truthy and 20 otherwise, cols the given value when truthy and rows otherwise,
\* algo the given value when truthy and 'recursive' otherwise; no argument gives
\* 20 by 20 and the recursive backtracker.
C9_ConfigResolution ==
    pc # "new" =>
        /\ err = ""
        /\ rows = IF GivenRows # 0 THEN GivenRows ELSE 20
        /\ cols = IF GivenCols # 0 THEN GivenCols ELSE rows
        /\ algo = IF GivenAlgo # "" THEN GivenAlgo ELSE "recursive"
        /\ (config.t = "undefined" => rows = 20 /\ cols = 20 /\ algo = "recursive")
        /\ (pc \in {"rec", "recLoop"} => algo \notin {"prim", "kruskal"})
        /\ (pc \in {"prim", "primLoop"} => algo = "prim")
        /\ (pc \in {"kruskal", "shuffle", "kruskalLoop"} => algo = "kruskal")

\* the constructor was called without argument
C9_Witness ==
    /\ pc = "configured"
    /\ config.t = "undefined"
    /\ rows = 20

\* the start cell of createRandomMazeRec: the bottom of the stack, or the
\* current cell when the stack is empty
RecStartCell == IF stack = <<>> THEN cell ELSE stack[1]

\* C10: in the recursive backtracker the neighbor chosen has never been the
\* current cell before, the start cell included, so that every wall-opening
\* step opens a wall that was still closed.
C10_RecOpensClosedWall ==
    [][(pc = "recLoop" /\ Len(stack') > Len(stack)) =>
        /\ cell' \notin (v \cup {RecStartCell})
        /\ \A d \in DOMAIN door :
              {door[d].cell1, door[d].cell2} = {cell, cell'} => door[d].closed]_vars
\* C11: randomized Prim terminates exactly when the frontier is empty; at that
\* point every cell is in the visited set and exactly rows*cols - 1 walls are
\* open; every iteration that adds a cell to the visited set adds a cell that
\* was not in it.
C11_PrimTermination ==
    /\ [](pc = "generated" /\ algo = "prim" =>
            /\ walls = <<>>
            /\ v = AllCells
            /\ Cardinality(OpenDoors) = rows * cols - 1)
    /\ [][pc = "primLoop" =>
            /\ (pc' = "generated" <=> walls = <<>>)
            /\ (Len(walls') >= Len(walls) /\ walls # <<>> <=>
                    Cardinality(v') = Cardinality(v) + 1)
            /\ Cardinality(OpenDoors') = Cardinality(v') - 1]_vars

\* Prim has finished on a 2x2 grid
C11_Witness ==
    /\ pc = "generated"
    /\ algo = "prim"
    /\ rows = 2 /\ cols = 2
    /\ walls = <<>>
\* the number of unions made so far: a union gives a parent to a root, and
\* nothing else makes a node a non-root
Unions == Cardinality({p \in DOMAIN m : m[p] # p})

\* C12: randomized Kruskal performs exactly rows*cols - 1 unions, opens exactly
\* the walls it unions, and ends with all cells in one union-find component.
C12_KruskalUnions ==
    /\ [](pc = "generated" /\ algo = "kruskal" =>
            /\ Unions = rows * cols - 1
            /\ Cardinality(OpenDoors) = rows * cols - 1
            /\ \A a, b \in AllCells : joined(m, a, b).r)
    /\ [][pc = "kruskalLoop" =>
            /\ Unions' \in {Unions, Unions + 1}
            /\ (Unions' = Unions + 1 <=> door' # door)
            /\ Cardinality(OpenDoors') = Unions']_vars

\* Kruskal has finished on a 2x2 grid whose wall list the shuffle has permuted
C12_Witness ==
    /\ pc = "generated"
    /\ algo = "kruskal"
    /\ rows = 2 /\ cols = 2
    /\ doors # <<1, 2, 3, 4>>
    /\ k = 4
\* C13: when end is not reachable from start through open walls, solve ends by
\* raising the error 'Cannot find a way from ... to ...', and fails in no other
\* way.
C13_PathNotFound ==
    pc = "thrown" => err = "Cannot find a way"
\* the value rootsNbr() would return
NbrOf(mm, ks) == rootsNbr(mm, ks).r

\* the arguments of a call that the Map mm has not seen
Unseen(c, mm) == ({c.p, c.q} \ {NoCell}) \ DOMAIN mm

\* the call c is a join of nodes that are in distinct components of mm
JoinsDistinct(c, mm) == c.op = "join" /\ ~joined(mm, c.p, c.q).r

\* C14 as stated: rootsNbr decreases by exactly 1 on a join of nodes in
\* distinct components and is unchanged by every other call, also by calls
\* whose arguments have not been seen before.
C14_CountAsStated ==
    [][pc = "uf" =>
        NbrOf(m', keys') = IF JoinsDistinct(call', m)
                           THEN NbrOf(m, keys) - 1
                           ELSE NbrOf(m, keys)]_vars

\* C14 amended: a call first adds one to rootsNbr for each of its arguments not
\* seen before; a join of nodes in distinct components then takes exactly 1
\* off; nothing else changes rootsNbr.
C14_CountWithRegistration ==
    [][pc = "uf" =>
        NbrOf(m', keys') = NbrOf(m, keys) + Cardinality(Unseen(call', m))
                             - (IF JoinsDistinct(call', m) THEN 1 ELSE 0)]_vars

\* three registered nodes have been joined into one component
C14_Witness ==
    /\ pc = "uf"
    /\ call.op = "join"
    /\ Cardinality(DOMAIN m) = 3
    /\ NbrOf(m, keys) = 1

\* a and b are connected by a chain of joins
Linked(a, b) == BlockOf(links, a) = BlockOf(links, b)

\* C15: after join(a, b), joined(a, b) is true and stays true whatever calls
\* follow; joined(a, b) is false for distinct nodes that no chain of joins
\* connects.
C15_JoinedIffLinked ==
    pc = "uf" =>
        /\ \A a, b \in UFNodes : joined(m, a, b).r <=> Linked(a, b)
        /\ (call.op = "join" => joined(m, call.p, call.q).r)
        /\ (call.op = "joined" => (call.yes <=> Linked(call.p, call.q)))

\* joined(p, q) has returned true for two nodes neither of which is the parent
\* of the other
C15_Witness ==
    /\ pc = "uf"
    /\ call.op = "joined"
    /\ call.yes
    /\ call.p # call.q
    /\ m[call.p] # call.q /\ m[call.q] # call.p

\* the Map after the registration of p (line 275)
Seen(mm, p) == IF p \in DOMAIN mm THEN mm ELSE mm @@ (p :> p)

\* the lookup that follows at most fuel parent pointers and rewrites none;
\* NoCell when it has not reached a root
RECURSIVE Follow(_, _, _)
Follow(mm, p, fuel) ==
    IF mm[p] = p THEN p
    ELSE IF fuel = 0 THEN NoCell
    ELSE Follow(mm, mm[p], fuel - 1)

PlainRoot(mm, p) == Follow(mm, p, Cardinality(DOMAIN mm))

\* every chain of parents ends in a self-parented root
Forest(mm) ==
    \A q \in DOMAIN mm : mm[q] \in DOMAIN mm /\ PlainRoot(mm, q) # NoCell

\* the partition of the registered nodes into components
PartitionOf(mm) ==
    {{q \in DOMAIN mm : PlainRoot(mm, q) = PlainRoot(mm, r)} : r \in DOMAIN mm}

\* C16: path halving is neutral: root(p) returns the representative that the
\* lookup without rewriting finds, a second root(p) returns the same node, the
\* partition into components is the same before and after the call, and the
\* parent pointers always form a forest.
C16_PathHalvingNeutral ==
    pc = "uf" =>
        /\ Forest(m)
        /\ (call.op = "root" => call.ret = PlainRoot(m, call.p))
        /\ \A p \in UFNodes :
              LET r1 == root(m, p)
                  r2 == root(r1.m, p)
              IN  /\ r1.r = PlainRoot(Seen(m, p), p)
                  /\ r2.r = r1.r
                  /\ Forest(r1.m)
                  /\ PartitionOf(r1.m) = PartitionOf(Seen(m, p))

\* root has been called and a node whose parent is not a root exists, so that
\* the lookup of that node rewrites its parent pointer
C16_Witness ==
    /\ pc = "uf"
    /\ call.op = "root"
    /\ \E p \in DOMAIN m : m[p] # p /\ m[m[p]] # m[p] /\ root(m, p).m # m
VisitedEnds(d) == {door[d].cell1, door[d].cell2} \cap v

\* C18: in Prim every wall of the frontier has an endpoint in the visited set;
\* a wall that is opened has exactly one visited endpoint and the cell marked
\* visited is its other endpoint.
C18_PrimFrontier ==
    /\ [](pc = "primLoop" => \A i \in 1..Len(walls) : VisitedEnds(walls[i]) # {})
    /\ [][pc = "primLoop" /\ (door' # door \/ v' # v) =>
            \E d \in DOMAIN door :
                /\ door[d].closed
                /\ door' = [door EXCEPT ![d].closed = FALSE]
                /\ Cardinality(VisitedEnds(d)) = 1
                /\ v' = v \cup {door[d].cell1, door[d].cell2}
                /\ v' # v]_vars

\* the frontier holds a wall between two visited cells and a wall to an
\* unvisited cell
C18_Witness ==
    /\ pc = "primLoop"
    /\ \E i \in 1..Len(walls) : Cardinality(VisitedEnds(walls[i])) = 2
    /\ \E i \in 1..Len(walls) : Cardinality(VisitedEnds(walls[i])) = 1

\* C19: in Kruskal, after each processed wall, two cells are in one union-find
\* component exactly when open walls connect them; a wall is left closed
\* exactly when its endpoints are already connected; the open walls form a
\* forest at every step.
C19_KruskalComponents ==
    /\ [](pc = "kruskalLoop" \/ (pc = "generated" /\ algo = "kruskal") =>
            /\ Acyclic
            /\ \A a, b \in AllCells : joined(m, a, b).r <=> b \in Visits({a}))
    /\ [][pc = "kruskalLoop" /\ k' = k + 1 =>
            (door' = door <=>
                door[doors[k + 1]].cell2 \in Visits({door[doors[k + 1]].cell1}))]_vars

\* Kruskal has left a wall closed on a 2x2 grid
C19_Witness ==
    /\ pc = "kruskalLoop"
    /\ rows = 2 /\ cols = 2
    /\ k = 4
    /\ Cardinality(OpenDoors) = 3

\* the simple paths over open walls that extend p to the cell e
RECURSIVE Extend(_, _)
Extend(p, e) ==
    IF p[Len(p)] = e THEN {p}
    ELSE UNION {Extend(Append(p, x), e) :
                    x \in {y \in AllCells : OpenBetween(p[Len(p)], y) /\ y \notin Range(p)}}

SimplePaths(s, e) == Extend(<<s>>, e)

\* C20: on a maze generated by prim or kruskal the sequence solve returns is
\* the only simple path from start to end, so it is the same for every
\* sequence of random choices.
C20_SolveDeterministic ==
    pc = "returned" /\ algo \in {"prim", "kruskal"} =>
        SimplePaths(startCell, endCell) = {path}

\* solve has returned on a 2x2 maze made by Prim after exploring a dead end
C20_Witness ==
    /\ pc = "returned"
    /\ algo = "prim"
    /\ rows = 2 /\ cols = 2
    /\ Len(path) >= 2
    /\ Cardinality(sv) > Len(path)
====
